---- MODULE Spec2Model ----
(***************************************************************************)
(* The Stackdriver span encoder of opencensus-go: protoFromSpanData and    *)
(* its helpers copyAttributes, trunc and clip32                            *)
(* (src/stats/measure_float64.go, lines 76-273).                           *)
(*                                                                         *)
(* The encoder is a stateless library: the state of the model is the call  *)
(* being served (which function, its arguments, its return value).         *)
(*                                                                         *)
(* Representation                                                          *)
(*   - a Go string / []byte is a sequence of bytes (numbers 0..255);       *)
(*   - a Go pointer or slice that may be nil is a sequence of length 0     *)
(*     (nil) or 1 (the value pointed to): Nil and Some(x);                 *)
(*   - a Go int (64 bits) does not fit a number of the model checker, so   *)
(*     it is a record [hi, lo] standing for hi * 2^30 + lo, 0 <= lo < 2^30;*)
(*     a Go int32 is a plain number and its arithmetic wraps explicitly.   *)
(***************************************************************************)
EXTENDS Integers, Sequences, FiniteSets, TLC

VARIABLES call, in, out

vars == <<call, in, out>>

Nil == <<>>

Some(x) == <<x>>

Min(a, b) == IF a < b THEN a ELSE b

Max(a, b) == IF a > b THEN a ELSE b

(***************************************************************************)
(* Program constants.                                                      *)
(***************************************************************************)
maxAnnotationEventsPerSpan == 32

maxMessageEventsPerSpan == 128

maxStackFrames == 128

maxAttributeKeyLen == 128

maxAttributeStringLen == 256

maxAnnotationMessageLen == 256

maxDisplayNameLen == 128

maxFunctionNameLen == 1024

maxFileNameLen == 256

MaxInt32 == 2147483647

MinInt32 == (-MaxInt32) - 1

\* utf8.RuneError, utf8.RuneSelf, utf8.UTFMax
RuneError == 65533

RuneSelf == 128

UTFMax == 4

(***************************************************************************)
(* Go int (64-bit) values: [hi, lo] = hi * Base + lo.                      *)
(***************************************************************************)
Base == 2^30

\* int(x) of a number that fits the model checker
AsInt(x) == [hi |-> x \div Base, lo |-> x % Base]

IntLess(a, b) == a.hi < b.hi \/ (a.hi = b.hi /\ a.lo < b.lo)

(***************************************************************************)
(* clip32 (lines 264-273): clips an int to the range of an int32.          *)
(***************************************************************************)
clip32(x) ==
    IF IntLess(x, AsInt(MinInt32)) THEN MinInt32
    ELSE IF IntLess(AsInt(MaxInt32), x) THEN MaxInt32
    ELSE x.hi * Base + x.lo

(***************************************************************************)
(* unicode/utf8, as called at line 246.                                    *)
(***************************************************************************)
\* utf8.RuneStart: the byte is not a continuation byte (b & 0xC0 != 0x80)
RuneStart(b) == (b \div 64) # 2

\* utf8's table `first`: the size of the sequence a byte leads (0: the byte
\* leads nothing) and the range its second byte must lie in.
LeadSize(b) ==
    IF b < 128 THEN 1
    ELSE IF b < 194 THEN 0
    ELSE IF b < 224 THEN 2
    ELSE IF b < 240 THEN 3
    ELSE IF b < 245 THEN 4
    ELSE 0

AcceptLo(b) == IF b = 224 THEN 160 ELSE IF b = 240 THEN 144 ELSE 128

AcceptHi(b) == IF b = 237 THEN 159 ELSE IF b = 244 THEN 143 ELSE 191

IsCont(b) == 128 <= b /\ b <= 191

\* utf8.DecodeRune: the first rune of p and its width
DecodeRune(p) ==
    LET n == Len(p)
    IN  IF n < 1 THEN [r |-> RuneError, size |-> 0]
        ELSE LET p0 == p[1]
                 sz == LeadSize(p0)
             IN  IF sz = 1 THEN [r |-> p0, size |-> 1]
                 ELSE IF sz = 0 \/ n < sz THEN [r |-> RuneError, size |-> 1]
                 ELSE IF p[2] < AcceptLo(p0) \/ AcceptHi(p0) < p[2]
                      THEN [r |-> RuneError, size |-> 1]
                 ELSE IF sz = 2
                      THEN [r |-> (p0 % 32) * 64 + (p[2] % 64), size |-> 2]
                 ELSE IF ~IsCont(p[3]) THEN [r |-> RuneError, size |-> 1]
                 ELSE IF sz = 3
                      THEN [r |-> (p0 % 16) * 4096 + (p[2] % 64) * 64
                                  + (p[3] % 64), size |-> 3]
                 ELSE IF ~IsCont(p[4]) THEN [r |-> RuneError, size |-> 1]
                 ELSE [r |-> (p0 % 8) * 262144 + (p[2] % 64) * 4096
                             + (p[3] % 64) * 64 + (p[4] % 64), size |-> 4]

\* the loop of utf8.DecodeLastRune: walk back from `start` to a byte that
\* starts a rune, not below lim; returns lim - 1 when there is none.
RECURSIVE FindStart(_, _, _)
FindStart(p, start, lim) ==
    IF start < lim THEN start
    ELSE IF RuneStart(p[start + 1]) THEN start
    ELSE FindStart(p, start - 1, lim)

\* utf8.DecodeLastRune: the last rune of p and its width (0-based offsets as
\* in the Go code; p[i] of Go is p[i + 1] here)
DecodeLastRune(p) ==
    LET end == Len(p)
    IN  IF end = 0 THEN [r |-> RuneError, size |-> 0]
        ELSE IF p[end] < RuneSelf THEN [r |-> p[end], size |-> 1]
        ELSE LET lim   == Max(end - UTFMax, 0)
                 found == FindStart(p, end - 2, lim)
                 start == Max(found, 0)
                 d     == DecodeRune(SubSeq(p, start + 1, end))
             IN  IF start + d.size # end THEN [r |-> RuneError, size |-> 1]
                 ELSE d

(***************************************************************************)
(* trunc (lines 242-262).                                                  *)
(***************************************************************************)
TrimOnce(b) ==
    \* an `if` in place of the `for`: at most one byte is trimmed
    LET d == DecodeLastRune(b)
    IN  IF d.r = RuneError /\ d.size = 1 THEN SubSeq(b, 1, Len(b) - 1) ELSE b

\* the loop of lines 245-252
RECURSIVE TrimInvalidTail(_)
TrimInvalidTail(b) ==
    LET d == DecodeLastRune(b)
    IN  IF d.r = RuneError /\ d.size = 1
        THEN TrimInvalidTail(SubSeq(b, 1, Len(b) - 1))
        ELSE b

truncDropsLimitBytes(s, limit) ==
    \* the limit taken for the number of bytes to remove
    IF Len(s) > limit
    THEN LET b == TrimInvalidTail(SubSeq(s, 1, Len(s) - limit))
         IN  [Value |-> b,
              TruncatedByteCount |-> clip32(AsInt(Len(s) - Len(b)))]
    ELSE [Value |-> s, TruncatedByteCount |-> 0]

truncCutsOnly(s, limit) ==
    \* trunc without the trimming loop
    IF Len(s) > limit
    THEN [Value |-> SubSeq(s, 1, limit),
          TruncatedByteCount |-> clip32(AsInt(Len(s) - limit))]
    ELSE [Value |-> s, TruncatedByteCount |-> 0]

trunc(s, limit) ==
    IF Len(s) > limit
    THEN LET b == TrimInvalidTail(SubSeq(s, 1, limit))
         IN  [Value |-> b,
              TruncatedByteCount |-> clip32(AsInt(Len(s) - Len(b)))]
    ELSE [Value |-> s, TruncatedByteCount |-> 0]

(***************************************************************************)
(* copyAttributes (lines 207-239).                                         *)
(*                                                                         *)
(* A Go map[string]interface{} is the sequence of its entries in the order *)
(* the range statement visits them.  An entry is                           *)
(*   [key |-> [id, len], value |-> [type, v], n |-> count]:                *)
(* the code reads of a key only its length and its identity, so a key is   *)
(* its length and an identifier; v is the value's content as a sequence of *)
(* numbers (a bool: <<0>> or <<1>>, an int64: <<x>>, a string: its bytes). *)
(* n > 1 stands for n entries that differ only in the bytes of their keys  *)
(* (same key length, same value), which the loop treats alike; n = 1 is an *)
(* ordinary entry.                                                         *)
(***************************************************************************)
SupportedTypes == {"bool", "int64", "string"}

\* the type switch of lines 222-231 for a supported value
attributeValue(value) ==
    IF value.type = "bool"
    THEN [type |-> "BoolValue", Value |-> value.v, TruncatedByteCount |-> 0]
    ELSE IF value.type = "int64"
    THEN [type |-> "IntValue", Value |-> value.v, TruncatedByteCount |-> 0]
    ELSE LET ts == trunc(value.v, maxAttributeStringLen)
         IN  [type |-> "StringValue", Value |-> ts.Value,
              TruncatedByteCount |-> ts.TruncatedByteCount]

KeyTooLongFrom128(key) == key.len >= maxAttributeKeyLen

\* line 232
KeyTooLong(key) == key.len > maxAttributeKeyLen

\* n executions of `dropped++` on an int32 (line 233), 1 <= n <= MaxInt32
Inc32(dropped, n) ==
    IF dropped > MaxInt32 - n
    THEN MinInt32 + (dropped - (MaxInt32 - n) - 1)
    ELSE dropped + n

\* (*out).AttributeMap[key] = &av (line 236)
MapSet(m, key, x) ==
    [k \in (DOMAIN m) \cup {key} |-> IF k = key THEN x ELSE m[k]]

RECURSIVE copyLoopKeyFirst(_, _, _, _)
copyLoopKeyFirst(entries, i, m, dropped) ==
    \* the key length checked before the type switch
    IF i > Len(entries)
    THEN [AttributeMap |-> m, DroppedAttributesCount |-> dropped]
    ELSE LET e == entries[i]
         IN  IF KeyTooLong(e.key)
             THEN copyLoopKeyFirst(entries, i + 1, m, Inc32(dropped, e.n))
             ELSE IF e.value.type \notin SupportedTypes
             THEN copyLoopKeyFirst(entries, i + 1, m, dropped)
             ELSE copyLoopKeyFirst(entries, i + 1,
                      MapSet(m, e.key, [av |-> attributeValue(e.value), n |-> e.n]),
                      dropped)

\* the loop of lines 220-237 from entry i on
RECURSIVE copyLoop(_, _, _, _)
copyLoop(entries, i, m, dropped) ==
    IF i > Len(entries)
    THEN [AttributeMap |-> m, DroppedAttributesCount |-> dropped]
    ELSE LET e == entries[i]
         IN  IF e.value.type \notin SupportedTypes
             THEN copyLoop(entries, i + 1, m, dropped)
             ELSE IF KeyTooLong(e.key)
             THEN copyLoop(entries, i + 1, m, Inc32(dropped, e.n))
             ELSE copyLoop(entries, i + 1,
                      MapSet(m, e.key, [av |-> attributeValue(e.value), n |-> e.n]),
                      dropped)

copyAttributesAlwaysAllocates(o, entries) ==
    \* copyAttributes without the early return of lines 210-212
    Some(copyLoop(entries, 1, IF o = Nil THEN <<>> ELSE o[1].AttributeMap, 0))

\* o is *out before the call; the result is *out after it
copyAttributes(o, entries) ==
    IF Len(entries) = 0 THEN o
    ELSE Some(copyLoop(entries, 1, IF o = Nil THEN <<>> ELSE o[1].AttributeMap, 0))

(***************************************************************************)
(* protoFromSpanData (lines 81-197).                                       *)
(***************************************************************************)
\* timestampProto (lines 199-205); a time.Time is [sec, nsec]
timestampProto(t) == [Seconds |-> t.sec, Nanos |-> t.nsec]

\* lines 121-124 and 134-137: allocate sp.TimeEvents if nil, then append
appendTimeEvent(te, event) ==
    LET cur == IF te = Nil
               THEN [TimeEvent |-> <<>>, DroppedAnnotationsCount |-> 0,
                     DroppedMessageEventsCount |-> 0]
               ELSE te[1]
    IN  Some([cur EXCEPT !.TimeEvent = Append(@, event)])

\* lines 114-119
annotationEvent(a) ==
    [Time |-> timestampProto(a.Time),
     Annotation |-> Some([Description |-> trunc(a.Message, maxAnnotationMessageLen),
                          Attributes |-> copyAttributes(Nil, a.Attributes)]),
     MessageEvent |-> Nil]

\* lines 137-147
messageEvent(e) ==
    [Time |-> timestampProto(e.Time),
     Annotation |-> Nil,
     MessageEvent |-> Some([Type |-> e.EventType, Id |-> e.MessageID,
                            UncompressedSizeBytes |-> e.UncompressedByteSize,
                            CompressedSizeBytes |-> e.CompressedByteSize])]

annotationStepOffByOne(as, i, st) ==
    \* the cap tested with > in place of >=
    IF st.done THEN st
    ELSE IF st.annotations > maxAnnotationEventsPerSpan
    THEN [st EXCEPT !.dropped = AsInt(Len(as) - i), !.done = TRUE]
    ELSE [st EXCEPT !.annotations = @ + 1,
                    !.te = appendTimeEvent(@, annotationEvent(as[i + 1]))]

\* one iteration of the loop of lines 109-125, at index i (0-based); st holds
\* the loop's variables, done = the loop was left by `break`
annotationStep(as, i, st) ==
    IF st.done THEN st
    ELSE IF st.annotations >= maxAnnotationEventsPerSpan
    THEN [st EXCEPT !.dropped = AsInt(Len(as) - i), !.done = TRUE]
    ELSE [st EXCEPT !.annotations = @ + 1,
                    !.te = appendTimeEvent(@, annotationEvent(as[i + 1]))]

\* the iterations lo..hi of that loop, in order, stopping at `break` (the
\* range is halved only to keep the evaluation shallow)
RECURSIVE annotationLoop(_, _, _, _)
annotationLoop(as, lo, hi, st) ==
    IF lo > hi THEN st
    ELSE IF lo = hi THEN annotationStep(as, lo, st)
    ELSE LET mid   == (lo + hi) \div 2
             first == annotationLoop(as, lo, mid, st)
         IN  IF first.done THEN first ELSE annotationLoop(as, mid + 1, hi, first)

\* one iteration of the loop of lines 128-148, at index i (0-based)
messageEventStep(es, i, st) ==
    IF st.done THEN st
    ELSE IF st.messageEvents >= maxMessageEventsPerSpan
    THEN [st EXCEPT !.dropped = AsInt(Len(es) - i), !.done = TRUE]
    ELSE [st EXCEPT !.messageEvents = @ + 1,
                    !.te = appendTimeEvent(@, messageEvent(es[i + 1]))]

\* the iterations lo..hi of that loop, in order, stopping at `break`
RECURSIVE messageEventLoop(_, _, _, _)
messageEventLoop(es, lo, hi, st) ==
    IF lo > hi THEN st
    ELSE IF lo = hi THEN messageEventStep(es, lo, st)
    ELSE LET mid   == (lo + hi) \div 2
             first == messageEventLoop(es, lo, mid, st)
         IN  IF first.done THEN first ELSE messageEventLoop(es, mid + 1, hi, first)

\* lines 150-156
setDroppedCounts(te, droppedAnnotationsCount, droppedMessageEventsCount) ==
    IF droppedAnnotationsCount # AsInt(0) \/ droppedMessageEventsCount # AsInt(0)
    THEN LET cur == IF te = Nil
                    THEN [TimeEvent |-> <<>>, DroppedAnnotationsCount |-> 0,
                          DroppedMessageEventsCount |-> 0]
                    ELSE te[1]
         IN  Some([cur EXCEPT
                     !.DroppedAnnotationsCount = clip32(droppedAnnotationsCount),
                     !.DroppedMessageEventsCount = clip32(droppedMessageEventsCount)])
    ELSE te

timeEventsMessagesFirst(s) ==
    \* the two loops in the other order
    LET e == messageEventLoop(s.MessageEvents, 0, Len(s.MessageEvents) - 1,
                              [messageEvents |-> 0, dropped |-> AsInt(0),
                               te |-> Nil, done |-> FALSE])
        a == annotationLoop(s.Annotations, 0, Len(s.Annotations) - 1,
                            [annotations |-> 0, dropped |-> AsInt(0),
                             te |-> e.te, done |-> FALSE])
    IN  setDroppedCounts(a.te, a.dropped, e.dropped)

\* lines 108-156
timeEvents(s) ==
    LET a == annotationLoop(s.Annotations, 0, Len(s.Annotations) - 1,
                            [annotations |-> 0, dropped |-> AsInt(0),
                             te |-> Nil, done |-> FALSE])
        e == messageEventLoop(s.MessageEvents, 0, Len(s.MessageEvents) - 1,
                              [messageEvents |-> 0, dropped |-> AsInt(0),
                               te |-> a.te, done |-> FALSE])
    IN  setDroppedCounts(e.te, a.dropped, e.dropped)

\* runtime.Frame{}
ZeroFrame == [Function |-> <<>>, File |-> <<>>, Line |-> 0]

\* runtime.Frames.Next (line 164) on the frames still to come: the next frame
\* and whether another follows; the zero Frame and false when none is left.
FramesNext(frames) ==
    IF Len(frames) = 0
    THEN [frame |-> ZeroFrame, more |-> FALSE, rest |-> <<>>]
    ELSE [frame |-> Head(frames), more |-> Len(frames) > 1, rest |-> Tail(frames)]

\* lines 169-173
stackFrame(frame) ==
    [FunctionName |-> trunc(frame.Function, maxFunctionNameLen),
     FileName |-> trunc(frame.File, maxFileNameLen),
     LineNumber |-> frame.Line]

\* one iteration of the loop of lines 163-178; st holds the frames still to
\* come, sf.Frame, dropped (a Go int, kept as a number: it counts frames of an
\* explicit sequence) and done = the loop was left by `break`
frameStep(st) ==
    IF st.done THEN st
    ELSE LET nx   == FramesNext(st.frames)
             full == Len(st.Frame) >= maxStackFrames
         IN  [frames  |-> nx.rest,
              Frame   |-> IF full THEN st.Frame
                          ELSE Append(st.Frame, stackFrame(nx.frame)),
              dropped |-> IF full THEN st.dropped + 1 ELSE st.dropped,
              done    |-> ~nx.more]

\* up to k iterations of that loop, in order, stopping at `break`
RECURSIVE frameLoop(_, _)
frameLoop(st, k) ==
    IF k = 0 THEN st
    ELSE IF k = 1 THEN frameStep(st)
    ELSE LET first == frameLoop(st, k \div 2)
         IN  IF first.done THEN first ELSE frameLoop(first, k - (k \div 2))

\* lines 158-180; s.StackTrace is Nil or Some(the frames CallersFrames yields).
\* The loop ends within Len(frames) + 1 iterations.
stackTrace(s) ==
    IF s.StackTrace # Nil
    THEN LET r == frameLoop([frames |-> s.StackTrace[1], Frame |-> <<>>,
                             dropped |-> 0, done |-> FALSE],
                            Len(s.StackTrace[1]) + 1)
         IN  Some([StackFrames |-> [Frame |-> r.Frame,
                                    DroppedFramesCount |-> clip32(AsInt(r.dropped))]])
    ELSE Nil

\* lines 186-191
spanLink(l, projectID) ==
    [TraceId |-> <<"projects", projectID, "traces", l.TraceID>>,
     SpanId |-> l.SpanID,
     Type |-> l.Type,
     Attributes |-> copyAttributes(Nil, l.Attributes)]

\* lines 182-194
links(s, projectID) ==
    IF Len(s.Links) > 0
    THEN Some([Link |-> [i \in 1..Len(s.Links) |-> spanLink(s.Links[i], projectID)]])
    ELSE Nil

\* s is Nil or Some(span data); the result is Nil or Some(span proto)
protoFromSpanData(s, projectID) ==
    IF s = Nil THEN Nil
    ELSE LET d == s[1]
         IN  Some([Name |-> <<"projects", projectID, "traces", d.TraceID,
                              "spans", d.SpanID>>,
                   SpanId |-> d.SpanID,
                   DisplayName |-> trunc(d.Name, maxDisplayNameLen),
                   StartTime |-> timestampProto(d.StartTime),
                   EndTime |-> timestampProto(d.EndTime),
                   SameProcessAsParentSpan |-> ~d.HasRemoteParent,
                   ParentSpanId |-> IF d.ParentSpanID # "0000000000000000"
                                    THEN Some(d.ParentSpanID) ELSE Nil,
                   Status |-> IF d.Status.Code # 0 \/ d.Status.Message # <<>>
                              THEN Some(d.Status) ELSE Nil,
                   Attributes |-> copyAttributes(Nil, d.Attributes),
                   TimeEvents |-> timeEvents(d),
                   StackTrace |-> stackTrace(d),
                   Links |-> links(d, projectID)])

(***************************************************************************)
(* Inputs.                                                                 *)
(***************************************************************************)
MaxStrLen == 4

MaxLimit == 4

MaxHi == 3

\* 'A', the continuation bytes 0x80 and 0xA9, the lead bytes of a 2-, 3- and
\* 4-byte sequence (0xC3, 0xE2, 0xF0), the lead byte 0xE0 (whose second byte
\* must be 0xA0..0xBF) and 0xFF, which no encoding holds
Bytes == {65, 128, 169, 195, 224, 226, 240, 255}

RECURSIVE StringsOfLen(_)
StringsOfLen(n) ==
    IF n = 0 THEN {<<>>}
    ELSE {Append(s, b) : s \in StringsOfLen(n - 1), b \in Bytes}

\* U+FFFD itself, properly encoded (EF BF BD), alone and cut
ReplacementStrings ==
    {<<239, 191, 189>>, <<65, 239, 191, 189>>, <<239, 191, 189, 65>>,
     <<65, 239, 191, 189, 65>>, <<239, 191>>}

TruncStrings ==
    UNION {StringsOfLen(n) : n \in 0..MaxStrLen} \cup ReplacementStrings

ClipInputs ==
    {[hi |-> h, lo |-> l] : h \in (-MaxHi)..MaxHi, l \in {0, 1, 2, Base - 2, Base - 1}}

\* attribute values: the three supported types and an unsupported one
BoolVal == [type |-> "bool", v |-> <<1>>]

IntVal == [type |-> "int64", v |-> <<7>>]

StrVal == [type |-> "string", v |-> <<104, 105>>]

FloatVal == [type |-> "float64", v |-> <<3>>]

\* a string of n 'A's followed by the three bytes of U+20AC
EuroAfter(n) == [i \in 1..(n + 3) |-> IF i <= n THEN 65 ELSE <<226, 130, 172>>[i - n]]

\* a string value two bytes over the limit, the limit falling inside a character
LongStrVal == [type |-> "string", v |-> EuroAfter(maxAttributeStringLen - 1)]

AttrValues == {BoolVal, IntVal, StrVal, LongStrVal, FloatVal}

MaxKeyLen == 130

KeyLens == {1, maxAttributeKeyLen, maxAttributeKeyLen + 1, MaxKeyLen}

Entry(i, l, v) == [key |-> [id |-> i, len |-> l], value |-> v, n |-> 1]

MaxAttrs == 2

RECURSIVE AttrMapsOfLen(_)
AttrMapsOfLen(k) ==
    IF k = 0 THEN {<<>>}
    ELSE {Append(m, Entry(k, l, v)) :
            m \in AttrMapsOfLen(k - 1), l \in KeyLens, v \in AttrValues}

AttrMaps == UNION {AttrMapsOfLen(k) : k \in 0..MaxAttrs}

\* the attribute maps given to a whole span: none, every single entry, and
\* some pairs
SpanAttrMaps ==
    AttrMapsOfLen(0) \cup AttrMapsOfLen(1)
    \cup {<<Entry(1, MaxKeyLen, BoolVal), Entry(2, MaxKeyLen, FloatVal)>>,
          <<Entry(1, 1, LongStrVal), Entry(2, MaxKeyLen, StrVal)>>,
          <<Entry(1, 1, FloatVal), Entry(2, 2, IntVal)>>}

\* MaxInt32 entries alike
LargeRun(i, l, v) == [key |-> [id |-> i, len |-> l], value |-> v, n |-> MaxInt32]

\* maps of 2^31 - 1 entries and more
LargeAttrMaps ==
    {<<LargeRun(1, MaxKeyLen, BoolVal)>>,
     <<LargeRun(1, MaxKeyLen, BoolVal), Entry(2, MaxKeyLen, IntVal)>>,
     <<Entry(1, MaxKeyLen, StrVal), LargeRun(2, MaxKeyLen, BoolVal)>>,
     <<LargeRun(1, MaxKeyLen, BoolVal), LargeRun(2, MaxKeyLen, IntVal)>>,
     <<LargeRun(1, MaxKeyLen, FloatVal), Entry(2, MaxKeyLen, BoolVal)>>,
     <<LargeRun(1, 1, BoolVal), Entry(2, MaxKeyLen, BoolVal)>>}

\* span data
MaxAnnotations == 34

MaxMessageEvents == 130

MaxFrames == 130

MaxLinks == 2

Time(i) == [sec |-> i, nsec |-> i % 7]

\* the attributes of the i-th annotation or link: none, one entry that is
\* dropped, one entry that is kept
SomeAttrs(i) ==
    IF i % 3 = 1 THEN <<>>
    ELSE IF i % 3 = 2 THEN <<Entry(1, MaxKeyLen, BoolVal)>>
    ELSE <<Entry(1, 1, StrVal), Entry(2, 2, FloatVal)>>

AnnotationOf(i) ==
    [Time |-> Time(i),
     Message |-> IF i % 5 = 0 THEN EuroAfter(maxAnnotationMessageLen - 2) ELSE <<97, 48 + (i % 10)>>,
     Attributes |-> SomeAttrs(i)]

MessageEventOf(i) ==
    [Time |-> Time(100 + i), EventType |-> 1 + (i % 2), MessageID |-> i,
     UncompressedByteSize |-> 10 * i, CompressedByteSize |-> i]

FrameOf(i) == [Function |-> <<102, 48 + (i % 10)>>, File |-> <<103, 46, 103, 111>>, Line |-> i]

LinkOf(i) ==
    [TraceID |-> "0a", SpanID |-> "0b", Type |-> i % 3, Attributes |-> SomeAttrs(i + 2)]

FramesOf(n) == [i \in 1..n |-> FrameOf(i)]

Names == {<<>>, <<115, 112, 97, 110>>, EuroAfter(maxDisplayNameLen - 1)}

MkSpan(name, attrs, nA, nE, st, nL) ==
    [Name |-> name, TraceID |-> "01", SpanID |-> "02",
     ParentSpanID |-> IF nL = 0 THEN "0000000000000000" ELSE "03",
     HasRemoteParent |-> nL = 1,
     StartTime |-> Time(1), EndTime |-> Time(2),
     Status |-> [Code |-> nL, Message |-> IF nA = 1 THEN <<111, 107>> ELSE <<>>],
     Attributes |-> attrs,
     Annotations |-> [i \in 1..nA |-> AnnotationOf(i)],
     MessageEvents |-> [i \in 1..nE |-> MessageEventOf(i)],
     StackTrace |-> st,
     Links |-> [i \in 1..nL |-> LinkOf(i)]]

\* the counts around a cap, and the extremes
Around(cap, max) == {0, 1, cap - 1, cap, cap + 1, max}

\* stack traces: absent, or present with 0..MaxFrames frames
StackTraces == {Nil} \cup {Some(FramesOf(n)) : n \in 0..MaxFrames}

SpanInputs ==
    {Nil}
    \cup {Some(MkSpan(<<>>, <<>>, a, e, Nil, 0)) :
            a \in 0..MaxAnnotations, e \in Around(maxMessageEventsPerSpan, MaxMessageEvents)}
    \cup {Some(MkSpan(<<>>, <<>>, a, e, Nil, 0)) :
            a \in Around(maxAnnotationEventsPerSpan, MaxAnnotations), e \in 0..MaxMessageEvents}
    \cup {Some(MkSpan(<<115>>, <<>>, a, 1, st, 0)) : a \in {0, 1}, st \in StackTraces}
    \cup {Some(MkSpan(name, attrs, 2, 0, Nil, l)) :
            name \in Names, attrs \in SpanAttrMaps, l \in 0..MaxLinks}

ProjectIDs == {"p"}

(***************************************************************************)
(* The calls.  One behaviour is one call of a function of the encoder on   *)
(* one input: `call` names the function, `in` holds its arguments and      *)
(* `out` the value it returned (each a record with a field per function,   *)
(* the fields of the other functions left at their zero value).            *)
(***************************************************************************)
NoArgs ==
    [span |-> Nil, projectID |-> "", entries |-> <<>>, s |-> <<>>, limit |-> 0,
     x |-> AsInt(0)]

NoResult ==
    [sp |-> Nil, attributes |-> Nil,
     ts |-> [Value |-> <<>>, TruncatedByteCount |-> 0], i32 |-> 0]

Init ==
    /\ call = "none"
    /\ in = NoArgs
    /\ out = NoResult

CallProtoFromSpanData ==
    /\ call = "none"
    /\ \E s \in SpanInputs, projectID \in ProjectIDs :
           /\ call' = "protoFromSpanData"
           /\ in' = [NoArgs EXCEPT !.span = s, !.projectID = projectID]
           /\ out' = [NoResult EXCEPT !.sp = protoFromSpanData(s, projectID)]

CallCopyAttributes ==
    /\ call = "none"
    /\ \E entries \in AttrMaps \cup LargeAttrMaps :
           /\ call' = "copyAttributes"
           /\ in' = [NoArgs EXCEPT !.entries = entries]
           /\ out' = [NoResult EXCEPT !.attributes = copyAttributes(Nil, entries)]

CallTrunc ==
    /\ call = "none"
    /\ \E s \in TruncStrings, limit \in 0..MaxLimit :
           /\ call' = "trunc"
           /\ in' = [NoArgs EXCEPT !.s = s, !.limit = limit]
           /\ out' = [NoResult EXCEPT !.ts = trunc(s, limit)]

CallClip32 ==
    /\ call = "none"
    /\ \E x \in ClipInputs :
           /\ call' = "clip32"
           /\ in' = [NoArgs EXCEPT !.x = x]
           /\ out' = [NoResult EXCEPT !.i32 = clip32(x)]

Next ==
    \/ CallProtoFromSpanData
    \/ CallCopyAttributes
    \/ CallTrunc
    \/ CallClip32

Spec == Init /\ [][Next]_vars

(***************************************************************************)
(* Properties of trunc.                                                    *)
(***************************************************************************)
\* the size a byte announces by its high bits (110xxxxx, 1110xxxx, 11110xxx),
\* 0 for any other byte
AnnouncedSize(b) ==
    IF 192 <= b /\ b < 224 THEN 2
    ELSE IF 224 <= b /\ b < 240 THEN 3
    ELSE IF 240 <= b /\ b < 248 THEN 4
    ELSE 0

\* b ends with a lead byte followed by fewer continuation bytes than it announces
EndsIncomplete(b) ==
    \E k \in 1..Min(3, Len(b)) :
        /\ AnnouncedSize(b[Len(b) - k + 1]) > k
        /\ \A j \in (Len(b) - k + 2)..Len(b) : IsCont(b[j])

IsPrefix(p, s) == Len(p) <= Len(s) /\ p = SubSeq(s, 1, Len(p))

InvalidLastByte(b) ==
    LET d == DecodeLastRune(b) IN d.r = RuneError /\ d.size = 1

\* C4 as stated: whatever the input and the limit, the value trunc returns
\* does not end with an incomplete multi-byte character.
TruncNeverEndsIncomplete ==
    call = "trunc" => ~EndsIncomplete(out.ts.Value)

\* C4, amended: when the input is longer than the limit, or does not itself
\* end with an incomplete multi-byte character, the value trunc returns does
\* not end with one.
TruncCutNeverEndsIncomplete ==
    (call = "trunc" /\ (Len(in.s) > in.limit \/ ~EndsIncomplete(in.s)))
        => ~EndsIncomplete(out.ts.Value)

\* a cut that fell inside a character, which trunc then removed down to a
\* non-empty value
TruncTrimmedPartialCharacter ==
    /\ call = "trunc"
    /\ Len(in.s) > in.limit
    /\ EndsIncomplete(SubSeq(in.s, 1, in.limit))
    /\ Len(out.ts.Value) > 0
    /\ Len(out.ts.Value) < in.limit

\* C5 as stated: trunc applied with the same limit to the value it returned
\* gives the same result, value and truncated byte count.
TruncIdempotent ==
    call = "trunc" => trunc(out.ts.Value, in.limit) = out.ts

\* C5, amended: trunc applied with the same limit to the value it returned
\* gives the same value, with a truncated byte count of 0.
TruncIdempotentOnValue ==
    call = "trunc" =>
        trunc(out.ts.Value, in.limit) = [Value |-> out.ts.Value, TruncatedByteCount |-> 0]

\* a truncation that removed bytes and kept some
TruncRemovedBytes ==
    /\ call = "trunc"
    /\ out.ts.TruncatedByteCount > 0
    /\ Len(out.ts.Value) > 0

\* C6: the value is a prefix of s of at most limit bytes and the count is
\* len(s) - len(value); s within the limit comes back unchanged with count 0;
\* a longer s gives its first limit bytes less exactly the trailing bytes that
\* DecodeLastRune reports as an invalid single byte.
TruncPrefixAndCount ==
    call = "trunc" =>
        LET s == in.s
            n == in.limit
            v == out.ts.Value
        IN  /\ IsPrefix(v, s)
            /\ Len(v) <= n
            /\ out.ts.TruncatedByteCount = Len(s) - Len(v)
            /\ Len(s) <= n => (v = s /\ out.ts.TruncatedByteCount = 0)
            /\ Len(s) > n =>
                 /\ ~InvalidLastByte(v)
                 /\ \A k \in (Len(v) + 1)..n : InvalidLastByte(SubSeq(s, 1, k))

\* a cut after which two or more bytes were trimmed
TruncTrimmedTwoBytes ==
    /\ call = "trunc"
    /\ Len(in.s) > in.limit
    /\ Len(out.ts.Value) + 2 <= in.limit
    /\ Len(out.ts.Value) > 0

(***************************************************************************)
(* Properties of copyAttributes.                                           *)
(***************************************************************************)
Supported(e) == e.value.type \in SupportedTypes

LongKey(e) == e.key.len > maxAttributeKeyLen

\* the sum of two Go ints
IntAdd(a, b) ==
    LET l == a.lo + b.lo
    IN  [hi |-> a.hi + b.hi + (l \div Base), lo |-> l % Base]

\* the number of entries of a map at the indexes `keep`, from index i on, as
\* a Go int
RECURSIVE CountEntries(_, _, _)
CountEntries(entries, i, keep) ==
    IF i > Len(entries) THEN AsInt(0)
    ELSE IntAdd(IF i \in keep THEN AsInt(entries[i].n) ELSE AsInt(0),
                CountEntries(entries, i + 1, keep))

LongKeyCount(entries) ==
    CountEntries(entries, 1, {i \in 1..Len(entries) : LongKey(entries[i])})

LongSupportedCount(entries) ==
    CountEntries(entries, 1,
                 {i \in 1..Len(entries) : LongKey(entries[i]) /\ Supported(entries[i])})

\* the low 32 bits of a Go int, as an int32: what a counter that is
\* incremented x times from 0 in int32 arithmetic holds
LowInt32(x) == (((x.hi + 2) % 4) - 2) * Base + x.lo

\* every entry stands for itself (no run of entries alike)
OrdinaryMap(entries) == \A i \in 1..Len(entries) : entries[i].n = 1

\* C3 as stated: every entry whose key is longer than 128 bytes is left out
\* and counted once, whatever the type of its value, and the final
\* DroppedAttributesCount is the number of entries whose key exceeds 128 bytes.
DroppedCountsEveryLongKey ==
    (call = "copyAttributes" /\ Len(in.entries) > 0 /\ OrdinaryMap(in.entries)) =>
        /\ \A i \in 1..Len(in.entries) :
               LongKey(in.entries[i]) => in.entries[i].key \notin DOMAIN out.attributes[1].AttributeMap
        /\ AsInt(out.attributes[1].DroppedAttributesCount) = LongKeyCount(in.entries)

\* C3, amended: every entry whose key is longer than 128 bytes is left out;
\* it is counted once when its value is a bool, an int64 or a string, and the
\* final DroppedAttributesCount is the number of those entries, as the int32
\* counter holds it.
DroppedCountsLongKeysOfSupportedType ==
    (call = "copyAttributes" /\ Len(in.entries) > 0) =>
        /\ \A i \in 1..Len(in.entries) :
               LongKey(in.entries[i]) => in.entries[i].key \notin DOMAIN out.attributes[1].AttributeMap
        /\ out.attributes[1].DroppedAttributesCount = LowInt32(LongSupportedCount(in.entries))

\* a map with a long key of a supported type, counted, and a long key of an
\* unsupported type, not counted
LongKeyOfUnsupportedTypeNotCounted ==
    /\ call = "copyAttributes"
    /\ \E i, j \in 1..Len(in.entries) :
           /\ LongKey(in.entries[i]) /\ Supported(in.entries[i])
           /\ LongKey(in.entries[j]) /\ ~Supported(in.entries[j])
    /\ out.attributes[1].DroppedAttributesCount = 1

\* the conversion of a supported value, stated apart from the code: the type
\* tag, and for a string the longest prefix of at most 256 bytes that
\* DecodeLastRune accepts
ExpectedValue(value) ==
    IF value.type = "string"
    THEN LET cut  == SubSeq(value.v, 1, Min(Len(value.v), maxAttributeStringLen))
             keep == IF Len(value.v) <= maxAttributeStringLen THEN Len(value.v)
                     ELSE CHOOSE k \in 0..Len(cut) :
                            /\ ~InvalidLastByte(SubSeq(cut, 1, k))
                            /\ \A m \in (k + 1)..Len(cut) : InvalidLastByte(SubSeq(cut, 1, m))
         IN  [type |-> "StringValue", Value |-> SubSeq(value.v, 1, keep),
              TruncatedByteCount |-> Len(value.v) - keep]
    ELSE [type |-> IF value.type = "bool" THEN "BoolValue" ELSE "IntValue",
          Value |-> value.v, TruncatedByteCount |-> 0]

\* the entries of a map whose value has a supported type
SupportedOnly(entries) == SelectSeq(entries, Supported)

\* C9: the output map holds exactly the entries with a bool, int64 or string
\* value and a key of at most 128 bytes (strings truncated to 256 bytes); an
\* entry of another type is left out and does not change
\* DroppedAttributesCount: the count is the one the same map gives without
\* those entries.
CopiesExactlySupportedShortKeys ==
    (call = "copyAttributes" /\ Len(in.entries) > 0) =>
        LET m    == out.attributes[1].AttributeMap
            kept == {i \in 1..Len(in.entries) : Supported(in.entries[i]) /\ in.entries[i].key.len <= maxAttributeKeyLen}
        IN  /\ DOMAIN m = {in.entries[i].key : i \in kept}
            /\ \A i \in kept :
                   m[in.entries[i].key] = [av |-> ExpectedValue(in.entries[i].value), n |-> in.entries[i].n]
            /\ \A i \in 1..Len(in.entries) :
                   ~Supported(in.entries[i]) => in.entries[i].key \notin DOMAIN m
            /\ out.attributes[1].DroppedAttributesCount =
                   copyLoop(SupportedOnly(in.entries), 1, <<>>, 0).DroppedAttributesCount

\* a map with an entry of an unsupported type under a short key, and a string
\* that was copied truncated
CopiedTruncatedStringBesideFloat ==
    /\ call = "copyAttributes"
    /\ \E i \in 1..Len(in.entries) : ~Supported(in.entries[i]) /\ ~LongKey(in.entries[i])
    /\ \E k \in DOMAIN out.attributes[1].AttributeMap :
           out.attributes[1].AttributeMap[k].av.TruncatedByteCount > 0

(***************************************************************************)
(* Properties of protoFromSpanData.                                        *)
(***************************************************************************)
Encoded == call = "protoFromSpanData" /\ in.span # Nil

\* the time events of the output, and its two counts as the generated Get
\* methods read them (0 on a nil container)
OutTimeEvents == IF out.sp[1].TimeEvents = Nil THEN <<>> ELSE out.sp[1].TimeEvents[1].TimeEvent

OutDroppedAnnotations ==
    IF out.sp[1].TimeEvents = Nil THEN 0 ELSE out.sp[1].TimeEvents[1].DroppedAnnotationsCount

OutDroppedMessageEvents ==
    IF out.sp[1].TimeEvents = Nil THEN 0 ELSE out.sp[1].TimeEvents[1].DroppedMessageEventsCount

AnnotationIndexes == {i \in 1..Len(OutTimeEvents) : OutTimeEvents[i].Annotation # Nil}

MessageEventIndexes == {i \in 1..Len(OutTimeEvents) : OutTimeEvents[i].MessageEvent # Nil}

\* C1: with A annotations and E message events the output holds exactly
\* min(A,32) annotation and min(E,128) message-event time events, the two
\* dropped counts are A - min(A,32) and E - min(E,128), and kept + dropped is
\* the input length for each list.
TimeEventsCappedAndCounted ==
    Encoded =>
        LET A    == Len(in.span[1].Annotations)
            E    == Len(in.span[1].MessageEvents)
            nAnn == Cardinality(AnnotationIndexes)
            nMsg == Cardinality(MessageEventIndexes)
        IN  /\ nAnn = Min(A, maxAnnotationEventsPerSpan)
            /\ nMsg = Min(E, maxMessageEventsPerSpan)
            /\ nAnn <= maxAnnotationEventsPerSpan
            /\ nMsg <= maxMessageEventsPerSpan
            /\ Len(OutTimeEvents) = nAnn + nMsg
            /\ OutDroppedAnnotations = A - Min(A, maxAnnotationEventsPerSpan)
            /\ OutDroppedMessageEvents = E - Min(E, maxMessageEventsPerSpan)
            /\ nAnn + OutDroppedAnnotations = A
            /\ nMsg + OutDroppedMessageEvents = E

\* annotations past their cap beside message events within theirs
AnnotationsDroppedMessageEventsKept ==
    /\ Encoded
    /\ Len(in.span[1].Annotations) > maxAnnotationEventsPerSpan
    /\ Len(in.span[1].MessageEvents) \in 1..maxMessageEventsPerSpan
    /\ OutDroppedAnnotations > 0
    /\ OutDroppedMessageEvents = 0

\* C10: the time events are the first min(A,32) annotations in input order
\* followed by the first min(E,128) message events in input order.
TimeEventsInInputOrder ==
    Encoded =>
        LET as == in.span[1].Annotations
            es == in.span[1].MessageEvents
            nA == Min(Len(as), maxAnnotationEventsPerSpan)
            nE == Min(Len(es), maxMessageEventsPerSpan)
            ev == OutTimeEvents
        IN  /\ Len(ev) = nA + nE
            /\ \A i \in 1..nA :
                   /\ ev[i].Annotation # Nil
                   /\ ev[i].MessageEvent = Nil
                   /\ ev[i].Time.Seconds = as[i].Time.sec
                   /\ IsPrefix(ev[i].Annotation[1].Description.Value, as[i].Message)
            /\ \A i \in 1..nE :
                   /\ ev[nA + i].MessageEvent # Nil
                   /\ ev[nA + i].Annotation = Nil
                   /\ ev[nA + i].Time.Seconds = es[i].Time.sec
                   /\ ev[nA + i].MessageEvent[1].Id = es[i].MessageID
            /\ \A i \in AnnotationIndexes, j \in MessageEventIndexes : i < j

\* both lists past their caps
BothListsPastTheirCaps ==
    /\ Encoded
    /\ Len(in.span[1].Annotations) > maxAnnotationEventsPerSpan
    /\ Len(in.span[1].MessageEvents) > maxMessageEventsPerSpan
    /\ Len(OutTimeEvents) = maxAnnotationEventsPerSpan + maxMessageEventsPerSpan

\* C2 as stated: a present stack trace of N frames gives min(N,128) stack
\* frames in order and DroppedFramesCount = N - min(N,128); an absent stack
\* trace gives an absent stack-trace field.
StackFramesCappedAndCounted ==
    Encoded =>
        IF in.span[1].StackTrace = Nil THEN out.sp[1].StackTrace = Nil
        ELSE /\ out.sp[1].StackTrace # Nil
             /\ LET frames == in.span[1].StackTrace[1]
                    N      == Len(frames)
                    sf     == out.sp[1].StackTrace[1].StackFrames
                IN  /\ Len(sf.Frame) = Min(N, maxStackFrames)
                    /\ \A i \in 1..Min(N, maxStackFrames) :
                           sf.Frame[i].LineNumber = frames[i].Line
                    /\ sf.DroppedFramesCount = N - Min(N, maxStackFrames)
                    /\ Len(sf.Frame) + sf.DroppedFramesCount = N

\* C7 as stated: every count field the encoder writes is its count saturated
\* to the int32 range: clip32 saturates, and the truncated byte count, the
\* dropped annotations, message events and stack frames (the iterations of the
\* frame loop that emitted nothing) and the dropped attributes are each the
\* saturation of their count, never a wrapped value.
CountFieldsSaturate ==
    /\ call = "clip32" =>
           out.i32 = (IF IntLess(in.x, AsInt(MinInt32)) THEN MinInt32
                      ELSE IF IntLess(AsInt(MaxInt32), in.x) THEN MaxInt32
                      ELSE in.x.hi * Base + in.x.lo)
    /\ call = "trunc" =>
           out.ts.TruncatedByteCount = clip32(AsInt(Len(in.s) - Len(out.ts.Value)))
    /\ Encoded =>
           /\ OutDroppedAnnotations =
                  clip32(AsInt(Len(in.span[1].Annotations) - Cardinality(AnnotationIndexes)))
           /\ OutDroppedMessageEvents =
                  clip32(AsInt(Len(in.span[1].MessageEvents) - Cardinality(MessageEventIndexes)))
           /\ in.span[1].StackTrace # Nil =>
                  out.sp[1].StackTrace[1].StackFrames.DroppedFramesCount =
                      clip32(AsInt(Max(Len(in.span[1].StackTrace[1]), 1)
                                   - Len(out.sp[1].StackTrace[1].StackFrames.Frame)))
    /\ (call = "copyAttributes" /\ Len(in.entries) > 0) =>
           out.attributes[1].DroppedAttributesCount = clip32(LongSupportedCount(in.entries))

\* C8: each attributes container of the output (the span's, each emitted
\* annotation's, each link's) is absent exactly when its input map is empty.
AttributesAbsentIffEmpty ==
    Encoded =>
        LET d  == in.span[1]
            nA == Min(Len(d.Annotations), maxAnnotationEventsPerSpan)
        IN  /\ (out.sp[1].Attributes = Nil) <=> (Len(d.Attributes) = 0)
            /\ \A i \in 1..nA :
                   (OutTimeEvents[i].Annotation[1].Attributes = Nil)
                       <=> (Len(d.Annotations[i].Attributes) = 0)
            /\ (out.sp[1].Links = Nil) <=> (Len(d.Links) = 0)
            /\ \A i \in 1..Len(d.Links) :
                   (out.sp[1].Links[1].Link[i].Attributes = Nil)
                       <=> (Len(d.Links[i].Attributes) = 0)

\* a span whose attributes are all dropped (the container is present and
\* empty), with an annotation and a link that have no attributes
AllAttributesDroppedContainerPresent ==
    /\ Encoded
    /\ Len(in.span[1].Attributes) > 0
    /\ out.sp[1].Attributes # Nil
    /\ DOMAIN out.sp[1].Attributes[1].AttributeMap = {}
    /\ \E i \in 1..Len(OutTimeEvents) :
           OutTimeEvents[i].Annotation # Nil
           /\ OutTimeEvents[i].Annotation[1].Attributes = Nil
    /\ \E i \in 1..Len(in.span[1].Links) : out.sp[1].Links[1].Link[i].Attributes = Nil

====
